---- MODULE Spec2Model ----
(***************************************************************************)
(* Model of the Spectator View compositor plugin (UnityCompositorInterface)*)
(* : the pose link to the remote device, the retry task that keeps it      *)
(* alive, the binding of the GPU resources, the compositor session and the *)
(* render callback.                                                        *)
(*                                                                         *)
(* Threads: one host thread issues the exported calls one after another;   *)
(* every create_task of ListenForServer runs its loop on a thread of its   *)
(* own; the render thread runs OnRenderEvent.  The plain bools             *)
(* connectedToServer / connectingToServer, the resource slots and the      *)
(* capture flags are plain globals, so every read and write of them that   *)
(* another thread can see is a step of its own.                            *)
(***************************************************************************)
EXTENDS Integers, Sequences, FiniteSets, TLC

\* ------------------------------------------------------------------ bounds
\* Retry tasks that may be alive at once (create_task is not bounded).
MaxTasks == 2
\* Connect attempts the peer refuses before it accepts every later one (LiveSpec).
MaxRefusals == 2

\* Background TakeCalibrationPicture tasks of the calibration app that may be
\* alive at once.
MaxPictures == 2

\* ------------------------------------------------------------- value sets
NULL == "null"

\* Endpoint strings the host may hand to SetSpectatorViewIP.
Addresses == {"127.0.0.1:9999"}

\* nsPast arguments of GetPose (an int, signed).
Offsets == {-1000000, 1000000}

\* A 64-bit offset in the caller's hands, as its two 32-bit words: hi is the high
\* word and low the low word, each read as a signed 32-bit integer, so that the
\* offset is hi * 2^32 + (low mod 2^32).  The offsets a caller may hold: one
\* millisecond, three seconds (3 000 000 000 ns), and minus three seconds.
WideOffsets == {[hi |-> 0, low |-> 1000000],
                [hi |-> 0, low |-> -1294967296],
                [hi |-> -1, low |-> 1294967296]}

\* Fields of a record that a receive may have stored when it fails: none, or
\* the first three.
ShortLengths == {0, 3}

\* Values ci->GetFrameDelayMS() may report.
FrameDelays == {33}

\* Textures the host may pass to the binding operations.
Textures == {"texA", "texB"}

\* Field order of the SVPose record on the wire.
SVPoseLayout == <<"posX", "posY", "posZ", "rotX", "rotY", "rotZ", "rotW", "sentTime">>

\* Records the peer may answer with, as the field values in wire order.
PeerRecords == {<<1, 2, 3, 0, 0, 0, 1, 42>>, <<4, 5, 6, 7, 8, 9, 10, 43>>}

\* Contents of a global that the loader zero-initialises.
ZeroBytes == <<0, 0, 0, 0, 0, 0, 0, 0>>

\* Program counters of a retry task: the line of ListenForServer it is about
\* to execute.
TaskPcs == {"l75", "l76", "l78", "l81", "l83", "l88"}

VARIABLES
    SpectatorViewIP,      \* char*: NULL or the configured address
    connectedToServer,    \* static bool
    connectingToServer,   \* static bool
    additionalOffsetTime, \* LONGLONG
    svPose,               \* SVPose
    poseBytes,            \* byte[sizeof(SVPose)]
    sentData,             \* ClientToServerPacket
    ci,                   \* CompositorInterface*: NULL or "ci"
    g_pD3D11Device,       \* ID3D11Device*
    g_colorTexture,       \* ID3D11Texture2D*
    g_UnityColorSRV,      \* ID3D11ShaderResourceView*
    g_outputTexture,      \* ID3D11Texture2D*
    g_videoTexture,       \* ID3D11Texture2D*
    takePicture,          \* bool
    isRecording,          \* bool
    videoInitialized,     \* bool
    renderlock,           \* std::mutex: "free", or the thread that holds it
    renderPc,             \* where the render thread is inside OnRenderEvent
    tick,                 \* the current OnRenderEvent call, as observed
    call,                 \* the host's binding call that is returning, as observed
    wasReset,             \* ResetSV has run and nothing was bound since
    tasks,                \* retry tasks alive: how many stand at each line
    hostPc,               \* where the host thread is inside an exported call
    hostRet,              \* where ListenForServer returns to
    refusals,             \* connect attempts refused so far, where they are counted
    q,                    \* the current / last GetPose call, as observed
    lastOk,               \* sentTime of the last record received, or NULL
    criticalSection,      \* the calibration app's CRITICAL_SECTIONs: owner and recursion count
    program               \* per thread of the calibration app: the lock operations still to come

vars == <<SpectatorViewIP, connectedToServer, connectingToServer, additionalOffsetTime,
          svPose, poseBytes, sentData, ci, g_pD3D11Device, g_colorTexture,
          g_UnityColorSRV, g_outputTexture, g_videoTexture, takePicture, isRecording,
          videoInitialized, renderlock, renderPc, tick, call, wasReset,
          tasks, hostPc, hostRet, refusals, q, lastOk, criticalSection, program>>

linkVars == <<SpectatorViewIP, connectedToServer, connectingToServer, tasks, refusals>>
poseVars == <<additionalOffsetTime, svPose, poseBytes, sentData, q, lastOk>>
gpuVars == <<ci, g_pD3D11Device, g_colorTexture, g_UnityColorSRV, g_outputTexture,
             g_videoTexture>>
captureVars == <<takePicture, isRecording, videoInitialized>>
renderVars == <<renderlock, renderPc, tick>>
pipeVars == <<captureVars, renderVars, call, wasReset>>
appVars == <<criticalSection, program>>

\* ---------------------------------------------------------- pure helpers
\* Position in the wire layout of field f.
FieldIndex(f) == CHOOSE i \in 1..Len(SVPoseLayout) : SVPoseLayout[i] = f

\* memcpy(&svPose, poseBytes, sizeof(SVPose)): the bytes seen as an SVPose.
MemcpyPose(bytes) == [f \in {SVPoseLayout[i] : i \in 1..Len(SVPoseLayout)} |-> bytes[FieldIndex(f)]]

\* Faulty variant: the components taken in another order.
PosOf_Swapped(p) == <<p.posX, p.posZ, p.posY>>

\* pos = XMFLOAT3(svPose.posX, svPose.posY, svPose.posZ)
PosOf(p) == <<p.posX, p.posY, p.posZ>>

\* rot = XMFLOAT4(svPose.rotX, svPose.rotY, svPose.rotZ, svPose.rotW)
RotOf(p) == <<p.rotX, p.rotY, p.rotZ, p.rotW>>

\* Faulty variant: the received sentTime is not copied into the outgoing record.
StampSentData_NoEcho(pose, delay, offset) ==
    [sentTime |-> 0, captureLatency |-> delay, additionalOffsetTime |-> offset]

\* The three assignments to sentData after a successful receive.
StampSentData(pose, delay, offset) ==
    [sentTime |-> pose.sentTime, captureLatency |-> delay, additionalOffsetTime |-> offset]

\* (LONGLONG)nsPast
RecordOffset(nsPast) == nsPast

\* The parameter int nsPast, given a 64-bit offset: the low word.
PassAsInt(offset) == offset.low

\* The 64-bit value of an int: the sign fills the high word.
Int64Of(n) == [hi |-> IF n < 0 THEN -1 ELSE 0, low |-> n]

\* What a receive that stored the first got fields of rec leaves in the buffer.
StoredBytes(buffer, rec, got) ==
    [i \in 1..Len(buffer) |-> IF i <= got THEN rec[i] ELSE buffer[i]]

\* Faulty variant: the buffer is copied whatever ReceiveData returned.
CopyIfReceived_Always(received, pose, bytes) == MemcpyPose(bytes)

\* if (tcp.ReceiveData(poseBytes, sizeof(SVPose))) memcpy(&svPose, poseBytes, ...)
CopyIfReceived(received, pose, bytes) == IF received THEN MemcpyPose(bytes) ELSE pose

\* Faulty variant: after a failed receive the exchange is made again.
ResumeAt_Retry(caller) == IF caller = "ListenForData" THEN "l97" ELSE "idle"

\* Where the host thread goes on when the ListenForServer call of caller
\* returns: ListenForData returns with it, into GetPose at line 133;
\* SetSpectatorViewIP returns to the host.
ResumeAt(caller) == IF caller = "ListenForData" THEN "l133" ELSE "idle"

\* Faulty variant: the test with && for ||.
AlreadyListening_Both(connecting, connected) == connecting /\ connected

\* The test that opens ListenForServer, on the two values it read.
AlreadyListening(connecting, connected) == connecting \/ connected

\* Faulty variant: the address test with == for !=.
ShouldConnect_NullAddress(connected, ip) == ~connected /\ ip = NULL

\* The test that guards the connect attempt of the retry loop.
ShouldConnect(connected, ip) == ~connected /\ ip # NULL

\* Faulty variant: the exchange made whatever the flag says.
ShouldExchange_Always(connected) == TRUE

\* The test that guards the exchange of ListenForData.
ShouldExchange(connected) == connected

\* Faulty variant: the slot takes the texture passed whatever it holds.
BindSlot_LastWins(slot, tex) == tex

\* if (slot == nullptr) slot = tex;  -- the slot after the statement.
BindSlot(slot, tex) == IF slot = NULL THEN tex ELSE slot

\* return slot != nullptr;
IsBound(slot) == slot # NULL

\* Faulty variant: the mutex taken whoever holds it.
CanLock_Always(lock) == TRUE

\* The constructor of std::lock_guard returns once the mutex is free.
CanLock(lock) == lock = "free"

\* Faulty variant: the mutex is left with its holder.
Unlocked_Leak(holder) == holder

\* The destructor of std::lock_guard: the mutex after it.
Unlocked(holder) == "free"

\* The test that opens StartRecording and StopRecording.
CanRecord(initialized, session) == initialized /\ session # NULL

\* Faulty variant: the flag set whatever the test says.
AfterStart_Always(flag, can) == TRUE

\* isRecording after StartRecording, given the outcome of its test.
AfterStart(flag, can) == IF can THEN TRUE ELSE flag

\* Faulty variant: the flag left as it is.
AfterStop_Keep(flag, can) == flag

\* isRecording after StopRecording, given the outcome of its test.
AfterStop(flag, can) == IF can THEN FALSE ELSE flag

\* Faulty variant: the callback goes on without a session.
NoSession_Never(session) == FALSE

\* if (ci == nullptr) at the top of OnRenderEvent.
NoSession(session) == session = NULL

\* Faulty variant: the encoder initialised on every tick.
NeedsEncoder_Always(initialized, session) == TRUE

\* if (!videoInitialized && ci != nullptr)
NeedsEncoder(initialized, session) == ~initialized /\ session # NULL

\* Faulty variant: a picture taken on every tick.
PictureWanted_Always(flag) == TRUE

\* if (takePicture)
PictureWanted(flag) == flag

\* Faulty variant: the frame recorded whether it is ready or not.
ShouldRecord_NotReady(recording, texture, ready) == recording /\ texture # NULL

\* Faulty variant: the texture is not tested.
ShouldRecord_NoTexture(recording, texture, ready) == recording /\ ready

\* if (isRecording && g_videoTexture != nullptr && ci->IsVideoFrameReady())
ShouldRecord(recording, texture, ready) == recording /\ texture # NULL /\ ready

\* The test that opens InitializeFrameProvider.
MissingResources == g_outputTexture = NULL \/ g_UnityColorSRV = NULL \/ g_pD3D11Device = NULL

NumTasks == tasks["l75"] + tasks["l76"] + tasks["l78"] + tasks["l81"] + tasks["l83"] + tasks["l88"]

TaskMove(from, to) == [tasks EXCEPT ![from] = @ - 1, ![to] = @ + 1]

\* What is observed of a GetPose call: the offset the caller holds and the
\* argument the call received, the cached pose and the flag
\* it found, the records it sent and what became of each send, the records it
\* received and the outcome of each receive, how the ListenForServer call of its
\* failure path ended, and the position and orientation it handed back.
NoCall == [offset |-> Int64Of(0), nsPast |-> 0, entryPose |-> MemcpyPose(ZeroBytes), connected |-> FALSE,
           sent |-> <<>>, sendOk |-> <<>>, recv |-> <<>>, peer |-> <<>>, rearm |-> <<>>,
           pos |-> <<>>, rot |-> <<>>]

\* What is observed of a binding, session or capture call of the host: the
\* operation, the texture passed in, the value returned, the view handed back
\* through srv, and the operations it invoked on the session (the constructor
\* included).
NoHostCall == [op |-> "none", arg |-> NULL, ret |-> <<>>, out |-> <<>>, ops |-> <<>>]

\* What is observed of an OnRenderEvent call: whether it came right after a
\* ResetSV, the compositor operations it invoked in order, each with the
\* texture passed, and what its tests read: videoInitialized (line 150),
\* takePicture (line 156), isRecording, g_videoTexture and the answer of
\* IsVideoFrameReady (line 163).
NoTick == [afterReset |-> FALSE, calls |-> <<>>, encoder |-> <<>>, picture |-> <<>>,
           recording |-> <<>>, video |-> <<>>, ready |-> <<>>]

\* ------------------------------------------------- the calibration app
\* The six CRITICAL_SECTION members of CalibrationApp.
CriticalSections == {"photoTexture", "command", "calibrationPicture", "chessBoardVisual",
                     "photoVisual", "imageCopy"}

\* Threads of the calibration app: the main thread, which runs Tick, is 0; the
\* others run the tasks created with pplx::create_task.
MainThread == 0
PictureTasks == 1..MaxPictures
Threads == {MainThread} \cup PictureTasks
NoThread == -1

\* A critical section nobody owns.
Released == [owner |-> NoThread, count |-> 0]

\* One lock operation of a thread: EnterCriticalSection, TryEnterCriticalSection
\* or LeaveCriticalSection on cs.
Enter(cs) == [op |-> "Enter", cs |-> cs]
TryEnter(cs) == [op |-> "TryEnter", cs |-> cs]
Leave(cs) == [op |-> "Leave", cs |-> cs]

\* The lock operations of DeleteOutputFiles, in order.
DeleteOutputFiles ==
    <<Enter("chessBoardVisual"), Leave("chessBoardVisual"),
      Enter("photoVisual"), Leave("photoVisual")>>

\* UpdateChessBoardVisual: nothing if the corners are not a whole board.
UpdateChessBoardVisual(whole) ==
    IF whole THEN <<Enter("chessBoardVisual"), Leave("chessBoardVisual")>> ELSE <<>>

\* ProcessChessBoards: the points are added under commandCriticalSection if
\* both images are valid, the visual is updated after it is left, the photos
\* are copied under photoVisualCriticalSection, and the files under
\* imageCopyCriticalSection if copy is asked for.
ProcessChessBoards(valid, whole, copy) ==
    (IF valid THEN <<Enter("command"), Leave("command")>> \o UpdateChessBoardVisual(whole)
              ELSE <<>>)
    \o <<Enter("photoVisual"), Leave("photoVisual")>>
    \o (IF copy /\ valid THEN <<Enter("imageCopy"), Leave("imageCopy")>> ELSE <<>>)

\* Faulty variant: the early return without LeaveCriticalSection.
TakeCalibrationPicture_NoLeave(found, valid, whole) ==
    <<Enter("calibrationPicture"), Enter("photoTexture"), Leave("photoTexture")>>
    \o (IF ~found THEN <<>>
         ELSE <<Enter("photoTexture"), Leave("photoTexture"), Leave("calibrationPicture")>>
              \o ProcessChessBoards(valid, whole, TRUE))

\* TakeCalibrationPicture: with no chessboard in view it leaves
\* calibrationPictureCriticalSection and returns.
TakeCalibrationPicture(found, valid, whole) ==
    <<Enter("calibrationPicture"), Enter("photoTexture"), Leave("photoTexture")>>
    \o (IF ~found THEN <<Leave("calibrationPicture")>>
         ELSE <<Enter("photoTexture"), Leave("photoTexture"), Leave("calibrationPicture")>>
              \o ProcessChessBoards(valid, whole, TRUE))

\* One iteration of PerformCalibrationUsingTestData over one image.
PerformCalibrationUsingTestData(valid, whole) ==
    DeleteOutputFiles \o ProcessChessBoards(valid, whole, FALSE)
    \o <<Enter("chessBoardVisual"), Leave("chessBoardVisual")>>

\* The lock operations of Render.
Render ==
    <<Enter("photoTexture"), Leave("photoTexture"),
      TryEnter("chessBoardVisual"), Leave("chessBoardVisual"),
      TryEnter("photoVisual"), Leave("photoVisual")>>

\* The critical section taken once more by t, and given back once.
Entered(section, t) == [owner |-> t, count |-> section.count + 1]
Left(section) == IF section.count = 1 THEN Released ELSE [section EXCEPT !.count = @ - 1]

\* t may take the section: it is free, or t owns it already.
CanEnter(section, t) == section.owner \in {NoThread, t}

\* program without the section that a failed TryEnter skips: the operations up
\* to and including the first Leave of cs.
RECURSIVE SkipSection(_, _)
SkipSection(prog, cs) ==
    IF prog = <<>> THEN <<>>
    ELSE IF Head(prog) = Leave(cs) THEN Tail(prog)
    ELSE SkipSection(Tail(prog), cs)

\* ------------------------------------------------------------------- Init
Init ==
    /\ SpectatorViewIP = NULL
    /\ connectedToServer = FALSE
    /\ connectingToServer = FALSE
    /\ additionalOffsetTime = 0
    /\ svPose = MemcpyPose(ZeroBytes)
    /\ poseBytes = ZeroBytes
    /\ sentData = [sentTime |-> 0, captureLatency |-> 0, additionalOffsetTime |-> 0]
    /\ ci = NULL
    /\ g_pD3D11Device = NULL
    /\ g_colorTexture = NULL
    /\ g_UnityColorSRV = NULL
    /\ g_outputTexture = NULL
    /\ g_videoTexture = NULL
    /\ takePicture = FALSE
    /\ isRecording = FALSE
    /\ videoInitialized = FALSE
    /\ renderlock = "free"
    /\ renderPc = "idle"
    /\ tick = NoTick
    /\ call = NoHostCall
    /\ wasReset = FALSE
    /\ tasks = [p \in TaskPcs |-> 0]
    /\ hostPc = "idle"
    /\ hostRet = "idle"
    /\ refusals = 0
    /\ q = NoCall
    /\ lastOk = <<>>
    /\ criticalSection = [cs \in CriticalSections |-> Released]
    /\ program = [t \in Threads |-> <<>>]

\* q with the way ListenForServer ended, when it is GetPose that called it.
Rearmed(how) == IF hostRet = "l133" THEN [q EXCEPT !.rearm = <<how>>] ELSE q

\* ------------------------------------------------- the retry task's steps
\* connectingToServer = true;
TaskSetConnecting ==
    /\ tasks["l75"] > 0
    /\ connectingToServer' = TRUE
    /\ tasks' = TaskMove("l75", "l76")
    /\ UNCHANGED <<SpectatorViewIP, connectedToServer, refusals>>
    /\ UNCHANGED <<poseVars, gpuVars, pipeVars, hostPc, hostRet>>
    /\ UNCHANGED appVars

\* if (!connectedToServer && SpectatorViewIP != nullptr): enter the connect call or skip it.
TaskTestConnect ==
    /\ tasks["l76"] > 0
    /\ tasks' = TaskMove("l76", IF ShouldConnect(connectedToServer, SpectatorViewIP) THEN "l78" ELSE "l81")
    /\ UNCHANGED <<SpectatorViewIP, connectedToServer, connectingToServer, refusals>>
    /\ UNCHANGED <<poseVars, gpuVars, pipeVars, hostPc, hostRet>>
    /\ UNCHANGED appVars

\* connectedToServer = tcp.CreateClientListener(SpectatorViewIP): the blocking call
\* returns, the peer having accepted or refused.
TaskConnectReturns ==
    /\ tasks["l78"] > 0
    /\ \E accepted \in BOOLEAN : connectedToServer' = accepted
    /\ tasks' = TaskMove("l78", "l81")
    /\ UNCHANGED <<SpectatorViewIP, connectingToServer, refusals>>
    /\ UNCHANGED <<poseVars, gpuVars, pipeVars, hostPc, hostRet>>
    /\ UNCHANGED appVars

\* The same step against a peer that refuses MaxRefusals attempts at most.
TaskConnectReturnsCounted ==
    /\ tasks["l78"] > 0
    /\ \E accepted \in BOOLEAN :
        /\ ~accepted => refusals < MaxRefusals
        /\ refusals' = IF accepted THEN refusals ELSE refusals + 1
        /\ connectedToServer' = accepted
    /\ tasks' = TaskMove("l78", "l81")
    /\ UNCHANGED <<SpectatorViewIP, connectingToServer>>
    /\ UNCHANGED <<poseVars, gpuVars, pipeVars, hostPc, hostRet>>
    /\ UNCHANGED appVars

\* if (connectedToServer)
TaskTestConnected ==
    /\ tasks["l81"] > 0
    /\ tasks' = TaskMove("l81", IF connectedToServer THEN "l83" ELSE "l88")
    /\ UNCHANGED <<SpectatorViewIP, connectedToServer, connectingToServer, refusals>>
    /\ UNCHANGED <<poseVars, gpuVars, pipeVars, hostPc, hostRet>>
    /\ UNCHANGED appVars

\* connectingToServer = false; return;
TaskExit ==
    /\ tasks["l83"] > 0
    /\ connectingToServer' = FALSE
    /\ tasks' = [tasks EXCEPT !["l83"] = @ - 1]
    /\ UNCHANGED <<SpectatorViewIP, connectedToServer, refusals>>
    /\ UNCHANGED <<poseVars, gpuVars, pipeVars, hostPc, hostRet>>
    /\ UNCHANGED appVars

\* Sleep(100); and back to the top of the loop.
TaskSleep ==
    /\ tasks["l88"] > 0
    /\ tasks' = TaskMove("l88", "l75")
    /\ UNCHANGED <<SpectatorViewIP, connectedToServer, connectingToServer, refusals>>
    /\ UNCHANGED <<poseVars, gpuVars, pipeVars, hostPc, hostRet>>
    /\ UNCHANGED appVars

\* ------------------------------------------------------- ListenForServer
\* First operand of the opening test: connectingToServer is read.
ListenForServerReadConnecting ==
    /\ hostPc = "l66a"
    /\ IF AlreadyListening(connectingToServer, FALSE)
         THEN hostPc' = hostRet /\ q' = Rearmed("returned")
         ELSE hostPc' = "l66b" /\ q' = q
    /\ UNCHANGED <<linkVars, gpuVars, pipeVars, hostRet>>
    /\ UNCHANGED <<additionalOffsetTime, svPose, poseBytes, sentData, lastOk>>
    /\ UNCHANGED appVars

\* Second operand: connectedToServer is read; if both were false the task is created.
ListenForServerReadConnected ==
    /\ hostPc = "l66b"
    /\ IF AlreadyListening(FALSE, connectedToServer)
         THEN tasks' = tasks /\ q' = Rearmed("returned")
         ELSE /\ NumTasks < MaxTasks
              /\ tasks' = [tasks EXCEPT !["l75"] = @ + 1]
              /\ q' = Rearmed("created")
    /\ hostPc' = hostRet
    /\ UNCHANGED <<SpectatorViewIP, connectedToServer, connectingToServer, refusals>>
    /\ UNCHANGED <<gpuVars, pipeVars, hostRet>>
    /\ UNCHANGED <<additionalOffsetTime, svPose, poseBytes, sentData, lastOk>>
    /\ UNCHANGED appVars

\* ListenForServer() entered on its own, as the function stands in the source.
\* The exported calls reach it only through SetSpectatorViewIP and ListenForData.
ListenForServerCall ==
    /\ hostPc = "idle"
    /\ hostPc' = "l66a"
    /\ hostRet' = "idle"
    /\ UNCHANGED <<linkVars, poseVars, gpuVars, pipeVars>>
    /\ UNCHANGED appVars

\* ---------------------------------------------------- SetSpectatorViewIP
SetSpectatorViewIP ==
    /\ hostPc = "idle"
    /\ \E ip \in Addresses : SpectatorViewIP' = ip
    /\ hostPc' = "l66a"
    /\ hostRet' = ResumeAt("SetSpectatorViewIP")
    /\ UNCHANGED <<connectedToServer, connectingToServer, tasks, refusals>>
    /\ UNCHANGED <<poseVars, gpuVars, pipeVars>>
    /\ UNCHANGED appVars

\* ------------------------------------------------ GetPose / ListenForData
\* additionalOffsetTime = (LONGLONG)nsPast; then the test that opens ListenForData.
GetPoseOffset(offsets) ==
    /\ hostPc = "idle"
    /\ \E offset \in offsets :
        LET nsPast == PassAsInt(offset) IN
        /\ additionalOffsetTime' = RecordOffset(nsPast)
        /\ q' = [NoCall EXCEPT !.offset = offset, !.nsPast = nsPast, !.entryPose = svPose,
                               !.connected = connectedToServer]
    /\ hostPc' = IF ShouldExchange(connectedToServer) THEN "l97" ELSE "l133"
    /\ UNCHANGED <<linkVars, gpuVars, pipeVars, svPose, poseBytes, sentData, lastOk, hostRet>>
    /\ UNCHANGED appVars

\* A caller whose offsets fit an int.
GetPoseWith(offsets) == GetPoseOffset({Int64Of(nsPast) : nsPast \in offsets})

GetPose == GetPoseWith(Offsets)

\* tcp.SendData((byte*)&sentData, sizeof(ClientToServerPacket)); the socket takes
\* the record or fails, and the statement drops what SendData returns.
ListenForDataSend ==
    /\ hostPc = "l97"
    /\ \E sendOk \in BOOLEAN :
        q' = [q EXCEPT !.sent = Append(@, sentData), !.sendOk = Append(@, sendOk)]
    /\ hostPc' = "l99"
    /\ UNCHANGED <<linkVars, gpuVars, pipeVars, hostRet>>
    /\ UNCHANGED <<additionalOffsetTime, svPose, poseBytes, sentData, lastOk>>
    /\ UNCHANGED appVars

\* tcp.ReceiveData(...) returns true: the record is copied and sentData is stamped.
\* With no compositor session ci->GetFrameDelayMS() dereferences a null pointer:
\* the process dies there, every thread with it, or the call yields whatever it
\* finds.
ListenForDataReceivedFrom(records) ==
    /\ hostPc = "l99"
    /\ \E rec \in records :
        /\ poseBytes' = StoredBytes(poseBytes, rec, Len(rec))
        /\ svPose' = CopyIfReceived(TRUE, svPose, poseBytes')
        /\ lastOk' = <<rec[FieldIndex("sentTime")]>>
        /\ q' = [q EXCEPT !.recv = Append(@, "ok"), !.peer = Append(@, rec)]
        /\ \/ /\ ci = NULL
              /\ hostPc' = "crashed"
              /\ tasks' = [p \in TaskPcs |-> 0]
              /\ sentData' = [sentData EXCEPT !.sentTime = MemcpyPose(rec).sentTime]
           \/ /\ \E delay \in FrameDelays :
                    sentData' = StampSentData(MemcpyPose(rec), delay, additionalOffsetTime)
              /\ hostPc' = "l133"
              /\ tasks' = tasks
    /\ UNCHANGED <<SpectatorViewIP, connectedToServer, connectingToServer, refusals>>
    /\ UNCHANGED <<gpuVars, pipeVars, additionalOffsetTime, hostRet>>
    /\ UNCHANGED appVars

ListenForDataReceived == ListenForDataReceivedFrom(PeerRecords)

\* tcp.ReceiveData(...) returns false: connectedToServer = false; ListenForServer();
\* The connection ends before a whole record has come in: the buffer holds the
\* fields that did arrive over what it held before.
ListenForDataFailedAfter(lengths, records) ==
    /\ hostPc = "l99"
    /\ \E got \in lengths, rec \in records :
        poseBytes' = StoredBytes(poseBytes, rec, got)
    /\ svPose' = CopyIfReceived(FALSE, svPose, poseBytes')
    /\ connectedToServer' = FALSE
    /\ q' = [q EXCEPT !.recv = Append(@, "fail")]
    /\ hostPc' = "l66a"
    /\ hostRet' = ResumeAt("ListenForData")
    /\ UNCHANGED <<SpectatorViewIP, connectingToServer, tasks, refusals>>
    /\ UNCHANGED <<gpuVars, pipeVars, additionalOffsetTime, sentData, lastOk>>
    /\ UNCHANGED appVars

\* A receive that fails with nothing stored.
ListenForDataFailed == ListenForDataFailedAfter({0}, PeerRecords)

\* pos = XMFLOAT3(...); rot = XMFLOAT4(...); and the call returns.
GetPoseReturn ==
    /\ hostPc = "l133"
    /\ q' = [q EXCEPT !.pos = PosOf(svPose), !.rot = RotOf(svPose)]
    /\ hostPc' = "ret"
    /\ UNCHANGED <<linkVars, gpuVars, pipeVars, hostRet>>
    /\ UNCHANGED <<additionalOffsetTime, svPose, poseBytes, sentData, lastOk>>
    /\ UNCHANGED appVars

\* The caller takes pos and rot; the host thread is free for its next call.
GetPoseDone ==
    /\ hostPc = "ret"
    /\ q' = NoCall
    /\ hostPc' = "idle"
    /\ UNCHANGED <<linkVars, gpuVars, pipeVars, hostRet>>
    /\ UNCHANGED <<additionalOffsetTime, svPose, poseBytes, sentData, lastOk>>
    /\ UNCHANGED appVars

\* ------------------------------------------- device and session set-up
\* OnGraphicsDeviceEvent(kUnityGfxDeviceEventInitialize): the device is taken
\* from the host if its D3D11 interface is there.
OnGraphicsDeviceEvent ==
    /\ hostPc = "idle"
    /\ \E d3d11 \in {NULL, "d3d11"} :
        g_pD3D11Device' = IF d3d11 # NULL THEN "device" ELSE g_pD3D11Device
    /\ UNCHANGED <<linkVars, poseVars, pipeVars, ci, g_colorTexture, g_UnityColorSRV,
                   g_outputTexture, g_videoTexture, hostPc, hostRet>>
    /\ UNCHANGED appVars

\* if (g_outputTexture == nullptr) g_outputTexture = tex; return g_outputTexture != nullptr;
SetOutputRenderTextureWith(textures) ==
    /\ hostPc = "idle"
    /\ \E tex \in textures \cup {NULL} :
        /\ g_outputTexture' = BindSlot(g_outputTexture, tex)
        /\ call' = [NoHostCall EXCEPT !.op = "SetOutputRenderTexture", !.arg = tex,
                                      !.ret = <<IsBound(g_outputTexture')>>]
    /\ wasReset' = (wasReset /\ g_outputTexture' = NULL)
    /\ hostPc' = "callret"
    /\ UNCHANGED <<linkVars, poseVars, captureVars, renderVars, ci, g_pD3D11Device,
                   g_colorTexture, g_UnityColorSRV, g_videoTexture, hostRet>>
    /\ UNCHANGED appVars

SetOutputRenderTexture == SetOutputRenderTextureWith(Textures)

\* if (g_videoTexture == nullptr) g_videoTexture = tex; return g_videoTexture != nullptr;
SetVideoRenderTexture ==
    /\ hostPc = "idle"
    /\ \E tex \in Textures \cup {NULL} :
        /\ g_videoTexture' = BindSlot(g_videoTexture, tex)
        /\ call' = [NoHostCall EXCEPT !.op = "SetVideoRenderTexture", !.arg = tex,
                                      !.ret = <<IsBound(g_videoTexture')>>]
    /\ wasReset' = (wasReset /\ g_videoTexture' = NULL)
    /\ hostPc' = "callret"
    /\ UNCHANGED <<linkVars, poseVars, captureVars, renderVars, ci, g_pD3D11Device,
                   g_colorTexture, g_UnityColorSRV, g_outputTexture, hostRet>>
    /\ UNCHANGED appVars

\* CreateTexture and CreateShaderResourceView may each fail and return null; the
\* call then returns false and leaves srv alone.
CreateUnityColorTexture ==
    /\ hostPc = "idle"
    /\ IF g_UnityColorSRV = NULL /\ g_pD3D11Device # NULL
         THEN \E tex \in {NULL, "colorTexture"} :
                /\ g_colorTexture' = tex
                /\ IF tex = NULL
                     THEN g_UnityColorSRV' = g_UnityColorSRV
                     ELSE \E srv \in {NULL, "colorSRV"} : g_UnityColorSRV' = srv
         ELSE UNCHANGED <<g_colorTexture, g_UnityColorSRV>>
    /\ call' = [NoHostCall EXCEPT
                  !.op = "CreateUnityColorTexture",
                  !.ret = <<~(g_pD3D11Device # NULL /\ g_UnityColorSRV' = NULL)>>,
                  !.out = IF g_pD3D11Device # NULL /\ g_UnityColorSRV' = NULL
                            THEN <<>> ELSE <<g_UnityColorSRV'>>]
    /\ wasReset' = (wasReset /\ g_colorTexture' = NULL)
    /\ hostPc' = "callret"
    /\ UNCHANGED <<linkVars, poseVars, captureVars, renderVars, ci, g_pD3D11Device,
                   g_outputTexture, g_videoTexture, hostRet>>
    /\ UNCHANGED appVars

\* The opening test, and if (ci == nullptr) ci = new CompositorInterface();
\* the session is created once the output texture, the colour view and the
\* device are there, and the pointer is stored before Initialize is called.
InitializeFrameProvider ==
    /\ hostPc = "idle"
    /\ ci' = IF MissingResources THEN ci ELSE "ci"
    /\ call' = [NoHostCall EXCEPT
                  !.op = "InitializeFrameProvider",
                  !.ret = IF MissingResources THEN <<FALSE>> ELSE <<>>,
                  !.ops = IF ~MissingResources /\ ci = NULL
                            THEN <<"CompositorInterface">> ELSE <<>>]
    /\ hostPc' = IF MissingResources THEN "callret" ELSE "l358"
    /\ UNCHANGED <<linkVars, poseVars, captureVars, renderVars, wasReset, g_pD3D11Device,
                   g_colorTexture, g_UnityColorSRV, g_outputTexture, g_videoTexture,
                   hostRet>>
    /\ UNCHANGED appVars

\* setColorSRV = ci->Initialize(...) returns, with success or failure;
\* return ci != nullptr && setColorSRV;
InitializeFrameProviderInitialize ==
    /\ hostPc = "l358"
    /\ \E setColorSRV \in BOOLEAN :
        call' = [call EXCEPT !.ret = <<ci # NULL /\ setColorSRV>>,
                             !.ops = Append(@, "Initialize")]
    /\ hostPc' = "callret"
    /\ UNCHANGED <<linkVars, poseVars, gpuVars, captureVars, renderVars, wasReset, hostRet>>
    /\ UNCHANGED appVars

\* The binding call returns to the host, which takes the value returned.
HostCallReturn ==
    /\ hostPc = "callret"
    /\ call' = NoHostCall
    /\ hostPc' = "idle"
    /\ UNCHANGED <<linkVars, poseVars, gpuVars, captureVars, renderVars, wasReset, hostRet>>
    /\ UNCHANGED appVars

\* ---------------------------------------------------------------- ResetSV
\* The call is made; the constructor of the lock_guard waits for the mutex.
ResetSV ==
    /\ hostPc = "idle"
    /\ hostPc' = "l279"
    /\ UNCHANGED <<linkVars, poseVars, gpuVars, pipeVars, hostRet>>
    /\ UNCHANGED appVars

ResetSVLock ==
    /\ hostPc = "l279"
    /\ CanLock(renderlock)
    /\ renderlock' = "host"
    /\ hostPc' = "l281"
    /\ UNCHANGED <<linkVars, poseVars, gpuVars, captureVars, renderPc, tick, call, wasReset,
                   hostRet>>
    /\ UNCHANGED appVars

\* g_colorTexture = nullptr;
ResetSVColorTexture ==
    /\ hostPc = "l281"
    /\ g_colorTexture' = NULL
    /\ hostPc' = "l282"
    /\ UNCHANGED <<linkVars, poseVars, pipeVars, ci, g_pD3D11Device, g_UnityColorSRV,
                   g_outputTexture, g_videoTexture, hostRet>>
    /\ UNCHANGED appVars

\* g_UnityColorSRV = nullptr;
ResetSVUnityColorSRV ==
    /\ hostPc = "l282"
    /\ g_UnityColorSRV' = NULL
    /\ hostPc' = "l283"
    /\ UNCHANGED <<linkVars, poseVars, pipeVars, ci, g_pD3D11Device, g_colorTexture,
                   g_outputTexture, g_videoTexture, hostRet>>
    /\ UNCHANGED appVars

\* g_outputTexture = nullptr;
ResetSVOutputTexture ==
    /\ hostPc = "l283"
    /\ g_outputTexture' = NULL
    /\ hostPc' = "l284"
    /\ UNCHANGED <<linkVars, poseVars, pipeVars, ci, g_pD3D11Device, g_colorTexture,
                   g_UnityColorSRV, g_videoTexture, hostRet>>
    /\ UNCHANGED appVars

\* g_videoTexture = nullptr;
ResetSVVideoTexture ==
    /\ hostPc = "l284"
    /\ g_videoTexture' = NULL
    /\ hostPc' = "l285"
    /\ UNCHANGED <<linkVars, poseVars, pipeVars, ci, g_pD3D11Device, g_colorTexture,
                   g_UnityColorSRV, g_outputTexture, hostRet>>
    /\ UNCHANGED appVars

\* The lock_guard goes out of scope and the call returns.
ResetSVUnlock ==
    /\ hostPc = "l285"
    /\ renderlock' = Unlocked(renderlock)
    /\ wasReset' = TRUE
    /\ hostPc' = "idle"
    /\ UNCHANGED <<linkVars, poseVars, gpuVars, captureVars, renderPc, tick, call, hostRet>>
    /\ UNCHANGED appVars

\* ---------------------------------------------------------- capture calls
\* takePicture = true;
TakePicture ==
    /\ hostPc = "idle"
    /\ takePicture' = TRUE
    /\ call' = [NoHostCall EXCEPT !.op = "TakePicture"]
    /\ hostPc' = "callret"
    /\ UNCHANGED <<linkVars, poseVars, gpuVars, isRecording, videoInitialized, renderVars,
                   wasReset, hostRet>>
    /\ UNCHANGED appVars

\* if (videoInitialized && ci != nullptr) { ci->StartRecording(); isRecording = true; }
StartRecording ==
    /\ hostPc = "idle"
    /\ isRecording' = AfterStart(isRecording, CanRecord(videoInitialized, ci))
    /\ call' = [NoHostCall EXCEPT
                  !.op = "StartRecording",
                  !.ops = IF CanRecord(videoInitialized, ci) THEN <<"StartRecording">> ELSE <<>>]
    /\ hostPc' = "callret"
    /\ UNCHANGED <<linkVars, poseVars, gpuVars, takePicture, videoInitialized, renderVars,
                   wasReset, hostRet>>
    /\ UNCHANGED appVars

\* if (videoInitialized && ci != nullptr) { ci->StopRecording(); isRecording = false; }
StopRecording ==
    /\ hostPc = "idle"
    /\ isRecording' = AfterStop(isRecording, CanRecord(videoInitialized, ci))
    /\ call' = [NoHostCall EXCEPT
                  !.op = "StopRecording",
                  !.ops = IF CanRecord(videoInitialized, ci) THEN <<"StopRecording">> ELSE <<>>]
    /\ hostPc' = "callret"
    /\ UNCHANGED <<linkVars, poseVars, gpuVars, takePicture, videoInitialized, renderVars,
                   wasReset, hostRet>>
    /\ UNCHANGED appVars

\* return isRecording;
IsRecording ==
    /\ hostPc = "idle"
    /\ call' = [NoHostCall EXCEPT !.op = "IsRecording", !.ret = <<isRecording>>]
    /\ hostPc' = "callret"
    /\ UNCHANGED <<linkVars, poseVars, gpuVars, captureVars, renderVars, wasReset, hostRet>>
    /\ UNCHANGED appVars

\* ---------------------------------------------------------- OnRenderEvent
\* tick with one more compositor operation invoked.
Invoked(op, tex) == [tick EXCEPT !.calls = Append(@, [op |-> op, arg |-> tex])]

\* The render thread moves to line `to`; nothing but tick changes with it.
\* Faulty variant: the encoder block placed after the photograph.
NextLine_EncoderLate(line) ==
    CASE line = "l148" -> "l156"
      [] line = "l152" -> "l163"
      [] line = "l158" -> "l159"
      [] line = "l159" -> "l150"
      [] line = "l167" -> "l170"

\* The statement of OnRenderEvent that follows the one at line, for the
\* statements that are not tests.
NextLine(line) ==
    CASE line = "l148" -> "l150"
      [] line = "l152" -> "l156"
      [] line = "l158" -> "l159"
      [] line = "l159" -> "l163"
      [] line = "l167" -> "l170"

RenderMove(from, to) ==
    /\ renderPc = from
    /\ renderPc' = to
    /\ UNCHANGED <<linkVars, poseVars, gpuVars, call, wasReset, hostPc, hostRet, renderlock>>
    /\ UNCHANGED appVars

\* if (ci == nullptr) return;  -- before the lock is taken.
OnRenderEvent ==
    /\ RenderMove("idle", IF NoSession(ci) THEN "ret" ELSE "l145")
    /\ tick' = [NoTick EXCEPT !.afterReset = wasReset]
    /\ UNCHANGED captureVars

\* std::lock_guard<std::mutex> lock(renderlock);
OnRenderEventLock ==
    /\ renderPc = "l145"
    /\ CanLock(renderlock)
    /\ renderlock' = "render"
    /\ renderPc' = "l146"
    /\ UNCHANGED <<linkVars, poseVars, gpuVars, captureVars, tick, call, wasReset, hostPc,
                   hostRet>>
    /\ UNCHANGED appVars

\* if (g_pD3D11Device != nullptr)
OnRenderEventTestDevice ==
    /\ RenderMove("l146", IF g_pD3D11Device # NULL THEN "l148" ELSE "l170")
    /\ UNCHANGED <<captureVars, tick>>

\* ci->UpdateFrameProvider();
OnRenderEventUpdateFrameProvider ==
    /\ RenderMove("l148", NextLine("l148"))
    /\ tick' = Invoked("UpdateFrameProvider", NULL)
    /\ UNCHANGED captureVars

\* if (!videoInitialized && ci != nullptr)
OnRenderEventTestEncoder ==
    /\ RenderMove("l150", IF NeedsEncoder(videoInitialized, ci) THEN "l152" ELSE "l156")
    /\ tick' = [tick EXCEPT !.encoder = <<videoInitialized>>]
    /\ UNCHANGED captureVars

\* videoInitialized = ci->InitializeVideoEncoder(g_pD3D11Device);
OnRenderEventInitializeVideoEncoder ==
    /\ RenderMove("l152", NextLine("l152"))
    /\ \E ok \in BOOLEAN : videoInitialized' = ok
    /\ tick' = Invoked("InitializeVideoEncoder", NULL)
    /\ UNCHANGED <<takePicture, isRecording>>

\* if (takePicture)
OnRenderEventTestPicture ==
    /\ RenderMove("l156", IF PictureWanted(takePicture) THEN "l158" ELSE "l163")
    /\ tick' = [tick EXCEPT !.picture = <<takePicture>>]
    /\ UNCHANGED captureVars

\* takePicture = false;
OnRenderEventClearPicture ==
    /\ RenderMove("l158", NextLine("l158"))
    /\ takePicture' = FALSE
    /\ UNCHANGED <<isRecording, videoInitialized, tick>>

\* ci->TakePicture(g_outputTexture);
OnRenderEventTakePicture ==
    /\ RenderMove("l159", NextLine("l159"))
    /\ tick' = Invoked("TakePicture", g_outputTexture)
    /\ UNCHANGED captureVars

\* if (isRecording && g_videoTexture != nullptr && ci->IsVideoFrameReady()):
\* the compositor is asked only if the first two operands are true.
OnRenderEventTestVideo ==
    /\ \E ready \in BOOLEAN :
        /\ RenderMove("l163", IF ShouldRecord(isRecording, g_videoTexture, ready)
                                THEN "l167" ELSE "l170")
        /\ tick' = IF isRecording /\ g_videoTexture # NULL
                     THEN [Invoked("IsVideoFrameReady", NULL) EXCEPT
                             !.recording = <<isRecording>>, !.video = <<g_videoTexture>>,
                             !.ready = <<ready>>]
                     ELSE [tick EXCEPT
                             !.recording = <<isRecording>>, !.video = <<g_videoTexture>>]
    /\ UNCHANGED captureVars

\* ci->RecordFrameAsync(g_videoTexture);
OnRenderEventRecordFrame ==
    /\ RenderMove("l167", NextLine("l167"))
    /\ tick' = Invoked("RecordFrameAsync", g_videoTexture)
    /\ UNCHANGED captureVars

\* The lock_guard goes out of scope and the callback returns.
OnRenderEventUnlock ==
    /\ renderPc = "l170"
    /\ renderlock' = Unlocked(renderlock)
    /\ renderPc' = "ret"
    /\ UNCHANGED <<linkVars, poseVars, gpuVars, captureVars, tick, call, wasReset, hostPc,
                   hostRet>>
    /\ UNCHANGED appVars

\* The render thread is back with the host's scheduler.
OnRenderEventReturn ==
    /\ RenderMove("ret", "idle")
    /\ tick' = NoTick
    /\ UNCHANGED captureVars

\* ------------------------------------------------------------------- Next
\* ------------------------------------------- the calibration app's steps
\* Everything but the calibration app's two variables.
pluginVars == <<linkVars, poseVars, gpuVars, pipeVars, hostPc, hostRet>>

\* The main thread begins a block of Update or Render.
MainBegins(prog) ==
    /\ program[MainThread] = <<>>
    /\ program' = [program EXCEPT ![MainThread] = prog]
    /\ UNCHANGED <<criticalSection, pluginVars>>

\* Update, key X: DeleteOutputFiles under commandCriticalSection.
UpdateKeyX ==
    MainBegins(<<Enter("command")>> \o DeleteOutputFiles \o <<Leave("command")>>)

\* Update, key Enter: PerformCalibration under commandCriticalSection.
UpdateKeyEnter == MainBegins(<<Enter("command"), Leave("command")>>)

\* Update, key T: PerformCalibrationUsingTestData under commandCriticalSection.
UpdateKeyT ==
    \E valid \in BOOLEAN, whole \in BOOLEAN :
        MainBegins(<<Enter("command")>> \o PerformCalibrationUsingTestData(valid, whole)
                   \o <<Leave("command")>>)

\* Tick: Render() after Update.
TickRender == MainBegins(Render)

\* Update, key Space, or TakeCalibrationPictureAtInterval: the main thread
\* creates a task that runs TakeCalibrationPicture.
CreateTakeCalibrationPicture ==
    /\ program[MainThread] = <<>>
    /\ \E t \in PictureTasks, found \in BOOLEAN, valid \in BOOLEAN, whole \in BOOLEAN :
        /\ program[t] = <<>>
        /\ program' = [program EXCEPT ![t] = TakeCalibrationPicture(found, valid, whole)]
    /\ UNCHANGED <<criticalSection, pluginVars>>

\* EnterCriticalSection returns: the section was free, or the thread's own.
EnterCriticalSection(t) ==
    /\ program[t] # <<>>
    /\ Head(program[t]).op = "Enter"
    /\ CanEnter(criticalSection[Head(program[t]).cs], t)
    /\ criticalSection' = [criticalSection EXCEPT ![Head(program[t]).cs] = Entered(@, t)]
    /\ program' = [program EXCEPT ![t] = Tail(@)]
    /\ UNCHANGED pluginVars

\* TryEnterCriticalSection: the section is taken if it can be, and skipped if not.
TryEnterCriticalSection(t) ==
    /\ program[t] # <<>>
    /\ Head(program[t]).op = "TryEnter"
    /\ IF CanEnter(criticalSection[Head(program[t]).cs], t)
         THEN /\ criticalSection' = [criticalSection EXCEPT
                                        ![Head(program[t]).cs] = Entered(@, t)]
              /\ program' = [program EXCEPT ![t] = Tail(@)]
         ELSE /\ criticalSection' = criticalSection
              /\ program' = [program EXCEPT ![t] = SkipSection(@, Head(program[t]).cs)]
    /\ UNCHANGED pluginVars

\* LeaveCriticalSection.
LeaveCriticalSection(t) ==
    /\ program[t] # <<>>
    /\ Head(program[t]).op = "Leave"
    /\ criticalSection' = [criticalSection EXCEPT ![Head(program[t]).cs] = Left(@)]
    /\ program' = [program EXCEPT ![t] = Tail(@)]
    /\ UNCHANGED pluginVars

CalibrationNext ==
    \/ UpdateKeyX
    \/ UpdateKeyEnter
    \/ UpdateKeyT
    \/ TickRender
    \/ CreateTakeCalibrationPicture
    \/ \E t \in Threads : EnterCriticalSection(t)
    \/ TryEnterCriticalSection(MainThread)
    \/ \E t \in Threads : LeaveCriticalSection(t)

CalibrationSpec == Init /\ [][CalibrationNext]_vars

\* The link, the pose query and the set-up of the session the query depends on.
\* Which texture the output slot holds makes no difference to them: one is
\* offered.
Next ==
    \/ TaskSetConnecting
    \/ TaskTestConnect
    \/ TaskConnectReturns
    \/ TaskTestConnected
    \/ TaskExit
    \/ TaskSleep
    \/ ListenForServerReadConnecting
    \/ ListenForServerReadConnected
    \/ SetSpectatorViewIP
    \/ GetPose
    \/ ListenForDataSend
    \/ ListenForDataReceived
    \/ ListenForDataFailed
    \/ GetPoseReturn
    \/ GetPoseDone
    \/ OnGraphicsDeviceEvent
    \/ SetOutputRenderTextureWith({"texA"})
    \/ CreateUnityColorTexture
    \/ InitializeFrameProvider
    \/ InitializeFrameProviderInitialize
    \/ HostCallReturn

Spec == Init /\ [][Next]_vars

\* Fair scheduling: a created task runs, its blocking calls return, and the host
\* thread gets through ListenForServer.  Nothing obliges the host to make a
\* call, and nothing obliges a receive to return.
Fairness ==
    /\ WF_vars(TaskSetConnecting)
    /\ WF_vars(TaskTestConnect)
    /\ WF_vars(TaskConnectReturnsCounted)
    /\ WF_vars(TaskTestConnected)
    /\ WF_vars(TaskExit)
    /\ WF_vars(TaskSleep)
    /\ WF_vars(ListenForServerReadConnecting)
    /\ WF_vars(ListenForServerReadConnected)

\* The link on its own, against a peer that stops refusing: the calls that read
\* or write the connection flags, with one offset and one peer record, and no
\* compositor session (so that a successful receive may end either way).  The
\* flags and the tasks move as under Next, whatever the values exchanged.
LinkNext ==
    \/ TaskSetConnecting
    \/ TaskTestConnect
    \/ TaskConnectReturnsCounted
    \/ TaskTestConnected
    \/ TaskExit
    \/ TaskSleep
    \/ ListenForServerReadConnecting
    \/ ListenForServerReadConnected
    \/ SetSpectatorViewIP
    \/ GetPoseWith({1000000})
    \/ ListenForDataSend
    \/ ListenForDataReceivedFrom({<<1, 2, 3, 0, 0, 0, 1, 42>>})
    \/ ListenForDataFailed
    \/ GetPoseReturn
    \/ GetPoseDone

LiveSpec == Init /\ [][LinkNext]_vars /\ Fairness

\* A host that keeps asking for poses: whenever it is free to start a GetPose it
\* does in the end, and a call that has the cached pose in hand returns.  A
\* send returns; a receive need not.
QueryFairness ==
    /\ WF_vars(GetPoseWith({1000000}))
    /\ WF_vars(ListenForDataSend)
    /\ WF_vars(GetPoseReturn)
    /\ WF_vars(GetPoseDone)

QueryingSpec == Init /\ [][LinkNext]_vars /\ Fairness /\ QueryFairness

\* The link with ListenForServer callable at any time, an address configured
\* or not.
StartNext ==
    \/ LinkNext
    \/ ListenForServerCall

StartSpec == Init /\ [][StartNext]_vars

\* The link with a caller that holds 64-bit offsets and a peer whose records
\* may arrive whole, in part or not at all.
PoseNext ==
    \/ TaskSetConnecting
    \/ TaskTestConnect
    \/ TaskConnectReturns
    \/ TaskTestConnected
    \/ TaskExit
    \/ TaskSleep
    \/ ListenForServerReadConnecting
    \/ ListenForServerReadConnected
    \/ SetSpectatorViewIP
    \/ GetPoseOffset(WideOffsets)
    \/ ListenForDataSend
    \/ ListenForDataReceived
    \/ ListenForDataFailedAfter(ShortLengths, PeerRecords)
    \/ GetPoseReturn
    \/ GetPoseDone

PoseSpec == Init /\ [][PoseNext]_vars

\* The render pipeline on its own: the host's device, binding, session, capture
\* and reset calls, and the render thread in OnRenderEvent.  None of them reads
\* or writes the link or the pose.
RenderNext ==
    \/ OnGraphicsDeviceEvent
    \/ SetOutputRenderTexture
    \/ SetVideoRenderTexture
    \/ CreateUnityColorTexture
    \/ InitializeFrameProvider
    \/ InitializeFrameProviderInitialize
    \/ HostCallReturn
    \/ ResetSV
    \/ ResetSVLock
    \/ ResetSVColorTexture
    \/ ResetSVUnityColorSRV
    \/ ResetSVOutputTexture
    \/ ResetSVVideoTexture
    \/ ResetSVUnlock
    \/ TakePicture
    \/ StartRecording
    \/ StopRecording
    \/ IsRecording
    \/ OnRenderEvent
    \/ OnRenderEventLock
    \/ OnRenderEventTestDevice
    \/ OnRenderEventUpdateFrameProvider
    \/ OnRenderEventTestEncoder
    \/ OnRenderEventInitializeVideoEncoder
    \/ OnRenderEventTestPicture
    \/ OnRenderEventClearPicture
    \/ OnRenderEventTakePicture
    \/ OnRenderEventTestVideo
    \/ OnRenderEventRecordFrame
    \/ OnRenderEventUnlock
    \/ OnRenderEventReturn

RenderSpec == Init /\ [][RenderNext]_vars

\* ================================================================ claims
\* A retry task that is alive and not on its way out.
ActiveRetry == NumTasks - tasks["l83"] > 0

\* C1: connectedToServer and connectingToServer are never both true.
C1_NeverBothFlags == ~(connectedToServer /\ connectingToServer)

\* C2: with an address configured and no call in progress, the link is
\* connected or a retry loop is running.
C2_NeverSilentlyIdle ==
    (SpectatorViewIP # NULL /\ hostPc = "idle") => (connectedToServer \/ NumTasks > 0)

\* C3: a ListenForServer call entered while connecting or connected creates no
\* task and writes neither flag.
C3_StartIdempotent ==
    [][(\/ hostPc = "l66a" /\ connectingToServer
        \/ hostPc = "l66b" /\ connectedToServer)
        => /\ NumTasks' <= NumTasks
           /\ hostPc' # hostPc =>
                /\ connectedToServer' = connectedToServer
                /\ connectingToServer' = connectingToServer]_vars

C3_Witness ==
    /\ hostPc = "ret"
    /\ q.recv = <<"fail">>
    /\ q.rearm = <<"returned">>
    /\ connectingToServer
    /\ NumTasks = 1

\* C4: a GetPose whose receive failed returns the pose cached before the call,
\* and when it returns the link is connected again or a retry loop is running.
C4_FailedReceiveRearms ==
    (hostPc = "ret" /\ q.recv = <<"fail">>) =>
        /\ q.pos = <<q.entryPose.posX, q.entryPose.posY, q.entryPose.posZ>>
        /\ q.rot = <<q.entryPose.rotX, q.entryPose.rotY, q.entryPose.rotZ, q.entryPose.rotW>>
        /\ q.rearm # <<>>
        /\ (connectedToServer \/ ActiveRetry)

\* C5: a GetPose that finds the link not connected returns the cached pose,
\* leaves it as it was, and neither sends nor receives.
C5_DisconnectedQueryReturnsCache ==
    (hostPc = "ret" /\ q.connected = FALSE) =>
        /\ q.pos = <<q.entryPose.posX, q.entryPose.posY, q.entryPose.posZ>>
        /\ q.rot = <<q.entryPose.rotX, q.entryPose.rotY, q.entryPose.rotZ, q.entryPose.rotW>>
        /\ svPose = q.entryPose
        /\ q.sent = <<>>
        /\ q.recv = <<>>

C5_Witness ==
    /\ hostPc = "ret"
    /\ q.connected = FALSE
    /\ q.nsPast = 1000000
    /\ q.pos = <<1, 2, 3>>
    /\ q.rot = <<0, 0, 0, 1>>

\* C6: after a successful exchange the cached pose is the received record,
\* field for field, and the call returns the position and orientation sent.
C6_RoundTrip ==
    q.recv = <<"ok">> =>
        /\ svPose = [posX |-> q.peer[1][1], posY |-> q.peer[1][2], posZ |-> q.peer[1][3],
                     rotX |-> q.peer[1][4], rotY |-> q.peer[1][5], rotZ |-> q.peer[1][6],
                     rotW |-> q.peer[1][7], sentTime |-> q.peer[1][8]]
        /\ hostPc = "ret" =>
                /\ q.pos = <<q.peer[1][1], q.peer[1][2], q.peer[1][3]>>
                /\ q.rot = <<q.peer[1][4], q.peer[1][5], q.peer[1][6], q.peer[1][7]>>

C6_Witness ==
    /\ hostPc = "ret"
    /\ q.recv = <<"ok">>
    /\ q.peer = <<(<<4, 5, 6, 7, 8, 9, 10, 43>>)>>
    /\ q.entryPose.posX = 1

\* C7: every record sent after a successful exchange carries the sentTime of
\* the record received last.
C7_EchoSentTime ==
    (hostPc = "l99" /\ lastOk # <<>>) => (Len(q.sent) = 1 /\ q.sent[1].sentTime = lastOk[1])

C7_Witness ==
    /\ hostPc = "l99"
    /\ lastOk = <<42>>
    /\ Len(q.sent) = 1
    /\ q.sent[1].sentTime = 42

\* C8: the record sent by a connected GetPose(offset) carries that offset.
C8_SentOffsetIsThisCalls ==
    hostPc = "l99" => (Len(q.sent) = 1 /\ q.sent[1].additionalOffsetTime = q.nsPast)

\* C9: GetPose never ends in an error state.
C9_QueryNeverFails == hostPc # "crashed"

\* C10: once the address is configured the link gets connected, and whenever
\* it is connected the retry loops come to an end unless the link is lost again.
C10_EventuallyConnected ==
    /\ <>(SpectatorViewIP # NULL) => <>connectedToServer
    /\ connectedToServer ~> (NumTasks = 0 \/ ~connectedToServer)

C10_Witness ==
    /\ SpectatorViewIP # NULL
    /\ refusals = MaxRefusals
    /\ refusals > 0
    /\ connectedToServer
    /\ ~connectingToServer
    /\ NumTasks = 0

\* C11: after a GetPose has found the link broken, the link gets connected
\* again, the host doing nothing but asking for poses.
C11_SelfHeals == (hostPc = "ret" /\ q.recv = <<"fail">>) ~> connectedToServer

\* C12: a GetPose in which a send or a receive failed took the link down
\* (line 110), and made one send and one receive at most.
C12_SocketErrorDisconnects ==
    (hostPc = "ret" /\ (q.sendOk = <<FALSE>> \/ q.recv = <<"fail">>)) =>
        /\ q.recv = <<"fail">>
        /\ Len(q.sent) = 1
        /\ Len(q.recv) = 1

\* C13: while no address is configured, neither flag is set and no task is
\* inside a connect attempt.
C13_StartWithoutAddressIsNoop ==
    SpectatorViewIP = NULL =>
        /\ ~connectingToServer
        /\ ~connectedToServer
        /\ tasks["l78"] = 0

\* ------------------------------------------------------ render pipeline
\* Lines of OnRenderEvent at which the render thread holds renderlock.
RenderCS == {"l146", "l148", "l150", "l152", "l156", "l158", "l159", "l163", "l167", "l170"}

\* Lines of ResetSV at which the host thread holds renderlock.
ResetCS == {"l281", "l282", "l283", "l284", "l285"}

\* Lines of ResetSV at which it has cleared some slots and not yet the others.
ResetPartial == {"l282", "l283", "l284"}

AllUnbound ==
    /\ g_colorTexture = NULL
    /\ g_UnityColorSRV = NULL
    /\ g_outputTexture = NULL
    /\ g_videoTexture = NULL

\* C14: a SetOutputRenderTexture call that finds the output slot bound leaves
\* the slot as it is and returns true; the same for SetVideoRenderTexture and
\* the video slot.
C14_FirstWriterWins ==
    [][(hostPc = "idle" /\ hostPc' = "callret") =>
          /\ (call'.op = "SetOutputRenderTexture" /\ g_outputTexture # NULL) =>
                (g_outputTexture' = g_outputTexture /\ call'.ret = <<TRUE>>)
          /\ (call'.op = "SetVideoRenderTexture" /\ g_videoTexture # NULL) =>
                (g_videoTexture' = g_videoTexture /\ call'.ret = <<TRUE>>)]_vars

C14_Witness ==
    /\ hostPc = "callret"
    /\ call.op = "SetOutputRenderTexture"
    /\ call.arg = "texB"
    /\ call.ret = <<TRUE>>
    /\ g_outputTexture = "texA"
    /\ ~wasReset

\* C15: a slot that is bound keeps its value in every step that is not one of
\* the four assignments of ResetSV.
C15_BoundSlotsKeepValue ==
    [][hostPc \notin {"l281", "l282", "l283", "l284"} =>
          /\ g_colorTexture # NULL => g_colorTexture' = g_colorTexture
          /\ g_UnityColorSRV # NULL => g_UnityColorSRV' = g_UnityColorSRV
          /\ g_outputTexture # NULL => g_outputTexture' = g_outputTexture
          /\ g_videoTexture # NULL => g_videoTexture' = g_videoTexture]_vars

\* C16: an OnRenderEvent call that follows a ResetSV, nothing bound in between,
\* invokes no compositor operation and leaves the four slots unbound.
C16_TickAfterResetIsNoop ==
    (renderPc = "ret" /\ tick.afterReset /\ wasReset) => (tick.calls = <<>> /\ AllUnbound)

\* C17: while the render thread holds renderlock, ResetSV is not between its
\* first and its last assignment; and a ResetSV that has returned has left the
\* four slots unbound, whatever it found.
C17_ResetAtomicUnderLock ==
    /\ renderPc \in RenderCS => hostPc \notin ResetPartial
    /\ wasReset => AllUnbound

C17_Witness ==
    /\ hostPc = "l283"
    /\ g_UnityColorSRV = NULL
    /\ g_outputTexture # NULL
    /\ g_pD3D11Device # NULL
    /\ ci # NULL
    /\ renderPc = "l145"

\* C18: every step that changes a resource slot, takePicture or isRecording is
\* taken by the thread that holds renderlock.
C18_WritesHoldLock ==
    [][(\/ g_colorTexture' # g_colorTexture
        \/ g_UnityColorSRV' # g_UnityColorSRV
        \/ g_outputTexture' # g_outputTexture
        \/ g_videoTexture' # g_videoTexture
        \/ takePicture' # takePicture
        \/ isRecording' # isRecording)
        => IF renderPc' # renderPc THEN renderlock = "render" ELSE renderlock = "host"]_vars

\* C19: the critical sections of OnRenderEvent and ResetSV do not overlap, and
\* when the tick calls RecordFrameAsync the flag and the texture its test read
\* are still what they were.
C19_TickUsesWhatItTested ==
    /\ ~(renderPc \in RenderCS /\ hostPc \in ResetCS)
    /\ renderPc = "l167" => (isRecording /\ tick.video = <<g_videoTexture>>)

\* C20: whenever the render thread is outside the critical section of
\* OnRenderEvent and the host outside that of ResetSV, renderlock is free.
C20_LockFreeOutsideSections ==
    (renderPc \notin RenderCS /\ hostPc \notin ResetCS) => renderlock = "free"

C20_Witness ==
    /\ renderPc = "ret"
    /\ tick.calls # <<>>
    /\ renderlock = "free"
    /\ hostPc = "l279"

\* The host thread makes the call `op`: this step is the call's body.
HostCalls(op) == hostPc = "idle" /\ hostPc' = "callret" /\ call'.op = op

\* C21: a step of OnRenderEvent taken while no session exists or no device is
\* bound invokes no compositor operation and leaves the capture flags and the
\* four slots as they are.
C21_NoSessionNoDeviceNoop ==
    [][(renderPc' # renderPc /\ (ci = NULL \/ g_pD3D11Device = NULL)) =>
          /\ Len(tick'.calls) <= Len(tick.calls)
          /\ UNCHANGED <<takePicture, isRecording, videoInitialized>>
          /\ UNCHANGED <<g_colorTexture, g_UnityColorSRV, g_outputTexture, g_videoTexture>>]_vars

C21_Witness ==
    /\ renderPc = "ret"
    /\ ci = NULL
    /\ g_pD3D11Device # NULL
    /\ g_videoTexture # NULL
    /\ takePicture
    /\ tick.calls = <<>>

\* C22: StartRecording called while the encoder is not initialised or no
\* session exists invokes nothing and leaves isRecording false, and
\* IsRecording called in such a state returns false.
C22_StartNeedsEncoder ==
    [][/\ (HostCalls("StartRecording") /\ ~CanRecord(videoInitialized, ci)) =>
             (~isRecording' /\ call'.ops = <<>>)
       /\ (HostCalls("IsRecording") /\ ~CanRecord(videoInitialized, ci)) =>
             call'.ret = <<FALSE>>]_vars

C22_Witness ==
    /\ hostPc = "callret"
    /\ call.op = "StartRecording"
    /\ call.ops = <<>>
    /\ ~isRecording
    /\ ~videoInitialized
    /\ ci # NULL
    /\ renderPc = "l152"

\* C23: StopRecording leaves isRecording false, nothing but a call of the
\* host changes the flag, and IsRecording returns the flag.
C23_StopClearsFlag ==
    [][/\ HostCalls("StopRecording") => ~isRecording'
       /\ HostCalls("IsRecording") => call'.ret = <<isRecording>>
       /\ hostPc' = hostPc => isRecording' = isRecording]_vars

C23_Witness ==
    /\ hostPc = "callret"
    /\ call.op = "StopRecording"
    /\ call.ops = <<"StopRecording">>
    /\ ~isRecording
    /\ renderPc = "l167"

\* C24: InitializeFrameProvider called while the output texture, the colour
\* view or the device is missing returns false, invokes neither the
\* constructor nor Initialize, and leaves ci null.
C24_NoSessionWithoutResources ==
    [][(HostCalls("InitializeFrameProvider") /\ MissingResources) =>
          /\ call'.ret = <<FALSE>>
          /\ call'.ops = <<>>
          /\ ci' = NULL]_vars

\* C25: when CreateUnityColorTexture returns true, the view it handed back
\* through srv is not null.
C25_TrueMeansViewBound ==
    (hostPc = "callret" /\ call.op = "CreateUnityColorTexture" /\ call.ret = <<TRUE>>) =>
        call.out \notin {<<>>, <<NULL>>}

\* How many times the tick has invoked the compositor operation `op`.
Invocations(op) == Cardinality({i \in 1..Len(tick.calls) : tick.calls[i].op = op})

\* The compositor operation the tick invoked last, with its texture.
LastInvoked == tick.calls[Len(tick.calls)]

\* C26: a tick that finds takePicture set clears it and makes one TakePicture
\* request, with g_outputTexture; a tick that finds it clear, or does not get
\* to the test, makes none; and only a TakePicture call of the host sets the
\* flag.
C26_OneShotPhoto ==
    [][/\ renderPc' = "ret" =>
             Invocations("TakePicture")' = IF tick'.picture = <<TRUE>> THEN 1 ELSE 0
       /\ (renderPc = "l158" /\ renderPc' # renderPc) => ~takePicture'
       /\ (renderPc = "l159" /\ renderPc' # renderPc) =>
             LastInvoked' = [op |-> "TakePicture", arg |-> g_outputTexture]
       /\ (takePicture' /\ ~takePicture) => HostCalls("TakePicture")]_vars

C26_Witness ==
    /\ renderPc = "ret"
    /\ tick.picture = <<TRUE>>
    /\ Invocations("TakePicture") = 1
    /\ tick.calls[2] = [op |-> "TakePicture", arg |-> "texA"]
    /\ ~takePicture

\* C27: a tick makes one RecordFrameAsync request, with the video texture its
\* test read, if that test read isRecording true and g_videoTexture non-null
\* and IsVideoFrameReady answered true; otherwise it makes none.
C27_RecordIffReady ==
    renderPc \in {"l170", "ret"} =>
        IF tick.recording = <<TRUE>> /\ tick.video \notin {<<>>, <<NULL>>} /\ tick.ready = <<TRUE>>
          THEN /\ Invocations("RecordFrameAsync") = 1
               /\ LastInvoked = [op |-> "RecordFrameAsync", arg |-> tick.video[1]]
          ELSE Invocations("RecordFrameAsync") = 0

C27_Witness ==
    /\ renderPc = "ret"
    /\ tick.recording = <<TRUE>>
    /\ tick.ready = <<TRUE>>
    /\ LastInvoked = [op |-> "RecordFrameAsync", arg |-> "texB"]

\* C28: a tick that gets past the device test invokes InitializeVideoEncoder
\* once if it reads videoInitialized false and not at all if it reads it true;
\* the encoder is never initialised while the flag is true, and the flag never
\* goes back to false.
C28_LazyEncoderInit ==
    [][/\ renderPc' = "ret" =>
             /\ tick'.calls # <<>> => tick'.encoder # <<>>
             /\ Invocations("InitializeVideoEncoder")' =
                    IF tick'.encoder = <<FALSE>> THEN 1 ELSE 0
       /\ renderPc' = "l152" => ~videoInitialized'
       /\ videoInitialized => videoInitialized']_vars

C28_Witness ==
    /\ renderPc = "ret"
    /\ videoInitialized
    /\ tick.encoder = <<TRUE>>
    /\ Invocations("InitializeVideoEncoder") = 0
    /\ Invocations("UpdateFrameProvider") = 1


\* C29: in a GetPose call the offset recorded in additionalOffsetTime is the
\* 64-bit offset the caller holds, whatever that offset is.
C29_OffsetRecordedExactly ==
    hostPc \in {"l97", "l99", "l133", "ret"} => Int64Of(additionalOffsetTime) = q.offset

\* The poses svPose can hold if it is only ever written whole: the zeroed
\* global, or one received record.
WholePoses == {MemcpyPose(ZeroBytes)} \cup {MemcpyPose(rec) : rec \in PeerRecords}

\* C30: a receive that fails, with part of a record stored or none, leaves
\* svPose and sentData as they were; svPose changes only in a receive that
\* succeeded, to the record received; and svPose is at all times one whole
\* record.
C30_PoseWholeOrUntouched ==
    [][/\ (hostPc = "l99" /\ hostPc' = "l66a") => (svPose' = svPose /\ sentData' = sentData)
       /\ svPose' # svPose =>
            /\ hostPc = "l99"
            /\ q'.recv = Append(q.recv, "ok")
            /\ svPose' = MemcpyPose(q'.peer[Len(q'.peer)])
       /\ svPose \in WholePoses
       /\ svPose' \in WholePoses]_vars

C30_Witness ==
    /\ hostPc = "ret"
    /\ q.recv = <<"fail">>
    /\ poseBytes = <<4, 5, 6, 0, 0, 0, 1, 42>>
    /\ svPose = MemcpyPose(<<1, 2, 3, 0, 0, 0, 1, 42>>)
    /\ sentData.sentTime = 42
    /\ q.pos = <<1, 2, 3>>

Rank(op) ==
    CASE op = "UpdateFrameProvider" -> 1
      [] op = "InitializeVideoEncoder" -> 2
      [] op = "TakePicture" -> 3
      [] op = "IsVideoFrameReady" -> 4
      [] op = "RecordFrameAsync" -> 5

\* C32: the operations a tick invokes come in the order frame provider,
\* encoder initialisation, photograph, video frame, each once at most and the
\* frame provider first; every one is invoked with renderlock held by the tick.
C32_TickOrderUnderLock ==
    [][/\ \A i, j \in 1..Len(tick'.calls) :
            i < j => Rank(tick'.calls[i].op) < Rank(tick'.calls[j].op)
       /\ tick'.calls # <<>> => tick'.calls[1].op = "UpdateFrameProvider"
       /\ Len(tick'.calls) > Len(tick.calls) =>
            (renderlock = "render" /\ renderlock' = "render" /\ renderPc \in RenderCS)]_vars

C32_Witness ==
    /\ renderPc = "ret"
    /\ renderlock = "free"
    /\ Len(tick.calls) = 5
    /\ tick.calls[2].op = "InitializeVideoEncoder"
    /\ tick.calls[3] = [op |-> "TakePicture", arg |-> "texA"]
    /\ tick.calls[5] = [op |-> "RecordFrameAsync", arg |-> "texB"]

\* C33: connectedToServer becomes true only while connectingToServer is true;
\* it becomes false only in the failed receive of a GetPose; and
\* connectingToServer is cleared only by a task that has seen the link
\* connected.
C33_ListedTransitionsOnly ==
    [][/\ (~connectedToServer /\ connectedToServer') => connectingToServer
       /\ (connectedToServer /\ ~connectedToServer') => (hostPc = "l99" /\ hostPc' = "l66a")
       /\ (connectingToServer /\ ~connectingToServer') => tasks["l83"] > 0]_vars

\* C34: one retry loop is alive at most, and one connect attempt is in
\* progress at most.
C34_OneRetryLoop == NumTasks <= 1 /\ tasks["l78"] <= 1

\* C35: no tick invokes an operation on the session while the
\* InitializeFrameProvider call that created the session has not yet come
\* back from ci->Initialize.
C35_NoUseBeforeInitialize ==
    [][Len(tick'.calls) > Len(tick.calls) =>
            ~(hostPc = "l358" /\ call.ops = <<"CompositorInterface">>)]_vars

\* C36: while isRecording is set the encoder is initialised and the session
\* exists.
C36_RecordingNeedsEncoder == isRecording => (videoInitialized /\ ci # NULL)

C36_Witness ==
    /\ isRecording
    /\ videoInitialized
    /\ wasReset
    /\ hostPc = "callret"
    /\ call.op = "StartRecording"
    /\ call.ops = <<"StartRecording">>
    /\ renderPc = "l145"

\* C37: no tick passes a null output texture to ci->TakePicture.
C37_PhotoHasTexture ==
    \A i \in 1..Len(tick.calls) :
        tick.calls[i].op = "TakePicture" => tick.calls[i].arg # NULL

\* Lines of ResetSV: a step of the host thread from one of them is a step of
\* ResetSV.
ResetLines == {"l279", "l281", "l282", "l283", "l284", "l285"}

\* C38: the steps of ResetSV leave the capture flags, the session, the
\* device, the connection flags and the cached pose as they were; a video
\* frame is requested only while a video texture is bound, and with that
\* texture; and a tick that reads isRecording set, a texture bound and a
\* frame ready requests one, whatever resets came before.
C38_ResetTouchesSlotsOnly ==
    [][/\ ((hostPc \in ResetLines \/ hostPc' \in ResetLines) /\ hostPc' # hostPc) =>
            UNCHANGED <<takePicture, isRecording, videoInitialized, ci, g_pD3D11Device,
                        connectedToServer, connectingToServer, svPose>>
       /\ Invocations("RecordFrameAsync")' > Invocations("RecordFrameAsync") =>
            /\ g_videoTexture # NULL
            /\ g_videoTexture' = g_videoTexture
            /\ LastInvoked' = [op |-> "RecordFrameAsync", arg |-> g_videoTexture]
       /\ (renderPc' = "ret" /\ tick'.recording = <<TRUE>> /\ tick'.video \notin {<<>>, <<NULL>>}
                /\ tick'.ready = <<TRUE>>) => Invocations("RecordFrameAsync")' = 1]_vars

C38_Witness ==
    /\ renderPc = "ret"
    /\ tick.afterReset
    /\ wasReset
    /\ isRecording
    /\ tick.recording = <<TRUE>>
    /\ tick.video = <<NULL>>
    /\ Invocations("UpdateFrameProvider") = 1
    /\ Invocations("RecordFrameAsync") = 0

\* A thread stopped in EnterCriticalSection, and the owner it waits for.
Waiting(t) ==
    /\ program[t] # <<>>
    /\ Head(program[t]).op = "Enter"
    /\ ~CanEnter(criticalSection[Head(program[t]).cs], t)

AwaitedOwner(t) == criticalSection[Head(program[t]).cs].owner

\* Critical sections t owns.
Held(t) == {cs \in CriticalSections : criticalSection[cs].owner = t}

\* C39: there is no set of threads each waiting for a critical section owned
\* by another of the set; and a thread whose function has returned owns no
\* critical section, calibrationPictureCriticalSection included.
C39_NoCalibrationDeadlock ==
    /\ \A stuck \in (SUBSET Threads) \ {{}} :
            ~(\A t \in stuck : Waiting(t) /\ AwaitedOwner(t) \in stuck)
    /\ \A t \in Threads : program[t] = <<>> => Held(t) = {}

C39_Witness ==
    /\ Held(MainThread) = {"command"}
    /\ Waiting(MainThread)
    /\ AwaitedOwner(MainThread) = 1
    /\ Held(1) = {"chessBoardVisual"}
    /\ Waiting(2)
    /\ AwaitedOwner(2) = MainThread
    /\ Held(2) = {}

====
